---- MODULE Spec2Model ----
(***************************************************************************)
(* A model of the gsw-analytics scripts:                                   *)
(*   - gsw_collect.py          the resume-safe boxscore collection run     *)
(*   - common_center_utils.py  the data-preparation pipeline, win_rate and *)
(*     summarize_games                                                     *)
(*   - clean_csvs.py, analyze_center_impact.py  the handling of missing    *)
(*     input files                                                         *)
(* Time is counted in tenths of a second, so that base_sleep = 1.2 s and   *)
(* the factor 1.5 stay integers.                                           *)
(***************************************************************************)
EXTENDS Integers, Sequences, FiniteSets, TLC

(***************************************************************************)
(* Bounds of the model                                                     *)
(***************************************************************************)
MaxGames == 2
MaxPlayers == 2
MaxLen == 3
MaxGameRows == 2
MaxBoxRows == 2
MaxSummaryRows == 2
MaxFileRows == 2

(***************************************************************************)
(* Program constants                                                       *)
(***************************************************************************)
\* gsw_collect.py:40  retries: int = 5
RETRIES == 5
\* gsw_collect.py:40  base_sleep: float = 1.2   (in tenths of a second)
BASE_SLEEP == 12
\* common_center_utils.py:9  GSW_TEAM_ID_DEFAULT
GSW_TEAM_ID_DEFAULT == 1610612744

VARIABLES
    \* ---- gsw_collect.py ----
    boxExists,   \* os.path.exists("data/gsw_boxscores.csv")
    boxRows,     \* the rows of data/gsw_boxscores.csv, in file order
    gamesCsv,    \* the GAME_IDs of data/gsw_games.csv, in file order
    pc,          \* where main is: "idle", "fetching", "done", "raised"
    err,         \* the exception that ended main, "none" when there is none
    game_ids,    \* main: game_ids
    already,     \* main: already
    remaining,   \* main: remaining
    idx,         \* get_boxscores: position of gid in the list it was given (1-based)
    attempt,     \* fetch_boxscore_safe: attempt
    parts,       \* get_boxscores: parts
    cur,         \* fetch_boxscore_safe: game_id of the current or last call
    log,         \* fetch_boxscore_safe: what the current or last call did
    ret,         \* fetch_boxscore_safe: what the last call returned
    box0Exists,  \* boxExists when the current run of main started
    box0Rows,    \* boxRows when the current run of main started
    lost,        \* the GAME_IDs fetched in the last run that ended by RuntimeError
    \* ---- common_center_utils.py: the text functions on one value ----
    txtIn,       \* the GAME_ID or START_POSITION value given
    txtOp,       \* the function applied: "none", "normalize", "detect"
    gidNorm,     \* normalize_game_ids: the GID_NORM of txtIn
    isCenter,    \* detect_c_starters: whether a row with txtIn is flagged
    \* ---- common_center_utils.py: pipeline ----
    pPc,         \* "ready" before the call of pipeline, "done" after it
    pGames,      \* argument games: rows [GAME_ID, SEASON_TYPE]
    pSeasonCol,  \* whether games has a SEASON_TYPE column
    pBox,        \* argument box: rows [GAME_ID, TEAM_ID, PLAYER_NAME, START_POSITION]
    pArgs,       \* [env, team_id, exclude_small_ball, include_traditional]
    outGames,    \* returned games: rows with GID_NORM and HAS_CENTER
    outBoxGsw,   \* returned box_gsw
    outStarters, \* returned starters_c
    outAllowed,  \* returned allowed_trad
    \* ---- common_center_utils.py: win_rate and summarize_games ----
    sPc,         \* "ready", then "analyzed" or "summarized"
    sGames,      \* the labelled games: rows [GAME_DATE, WL, HAS_CENTER]
    wrWith,      \* analyze_center_impact.py: wr_with
    wrWithout,   \* analyze_center_impact.py: wr_without
    summary,     \* what summarize_games returned: one row per HAS_CENTER group
    \* ---- clean_csvs.py and analyze_center_impact.py: the files ----
    fScript,     \* the script that runs
    fPc,         \* where it is
    fErr,        \* the exception that ended it, "none" when there is none
    fGames,      \* data/gsw_games.csv: [exists, rows]
    fBox,        \* data/gsw_boxscores.csv: [exists, rows]
    fOut,        \* the files written: [dir, team, kind, rows]
    console      \* what was printed

collectVars == <<boxExists, boxRows, gamesCsv, pc, err, game_ids, already,
                 remaining, idx, attempt, parts, cur, log, ret,
                 box0Exists, box0Rows, lost>>

textVars == <<txtIn, txtOp, gidNorm, isCenter>>

pipeVars == <<pPc, pGames, pSeasonCol, pBox, pArgs, outGames, outBoxGsw,
              outStarters, outAllowed>>

summaryVars == <<sPc, sGames, wrWith, wrWithout, summary>>

fileVars == <<fScript, fPc, fErr, fGames, fBox, fOut, console>>

vars == <<collectVars, textVars, pipeVars, summaryVars, fileVars>>

(***************************************************************************)
(* Helpers on sequences                                                    *)
(***************************************************************************)
Range(s) == {s[i] : i \in 1..Len(s)}

Min(S) == CHOOSE x \in S : \A y \in S : x <= y

RECURSIVE SortedSeq(_)
SortedSeq(S) ==
    IF S = {} THEN <<>> ELSE <<Min(S)>> \o SortedSeq(S \ {Min(S)})

RECURSIVE Concat(_)
\* pd.concat(parts, ignore_index=True)
Concat(ps) ==
    IF ps = <<>> THEN <<>> ELSE Head(ps) \o Concat(Tail(ps))

(***************************************************************************)
(* gsw_collect.py                                                          *)
(***************************************************************************)
Games == 1..MaxGames

\* What BoxScoreTraditionalV2(...).get_data_frames() can give: an exception,
\* no frame at all, or frames whose first holds one row per player.
\* The statistics line of a player: what the API gives for one game can differ
\* from one call to the next
Stats == {"line1", "line2"}

PlayerStats ==
    {[i \in 1..n |-> [PLAYER_ID |-> i, STAT |-> s]] : n \in 0..MaxPlayers, s \in Stats}

APIResponses ==
    {[kind |-> "error", rows |-> <<>>], [kind |-> "noframes", rows |-> <<>>]}
    \cup {[kind |-> "frames", rows |-> r] : r \in PlayerStats}

\* part["GAME_ID"] = game_id
SetGameId(rows, g) ==
    [i \in 1..Len(rows) |->
        [GAME_ID |-> g, PLAYER_ID |-> rows[i].PLAYER_ID, STAT |-> rows[i].STAT]]

\* time.sleep(base_sleep * attempt * 1.5)
Backoff(base_sleep, k) == (base_sleep * k * 3) \div 2

\* A loop that makes one attempt too many
LastAttemptOff(k, retries) == k > retries
\* for attempt in range(1, retries + 1): attempt k is the last one
LastAttempt(k, retries) == k >= retries

\* An entry of the log of a call of fetch_boxscore_safe: a time.sleep(d), or
\* an HTTP call with what it gave.
SleepEntry(d) == [kind |-> "sleep", d |-> d, res |-> "-", rows |-> <<>>]
CallEntry(resp) == [kind |-> "call", d |-> 0, res |-> resp.kind, rows |-> resp.rows]
ErrorResponse == [kind |-> "error", rows |-> <<>>]

GameIdsOf(rows) == {rows[i].GAME_ID : i \in 1..Len(rows)}

\* already = set(old["GAME_ID"].unique()) when the file exists and has rows
Already(exists, rows) ==
    IF exists /\ rows # <<>> THEN GameIdsOf(rows) ELSE {}

\* remaining = [g for g in game_ids if g not in already]
Remaining(ids, alr) == SelectSeq(ids, LAMBDA g : g \notin alr)

Key(r) == <<r.GAME_ID, r.PLAYER_ID>>

\* drop_duplicates(subset=["GAME_ID", "PLAYER_ID"], keep="last")
DropDuplicatesLast(rows) ==
    LET keep(i) == \A j \in (i + 1)..Len(rows) : Key(rows[j]) # Key(rows[i])
        F[i \in 0..Len(rows)] ==
            IF i = 0 THEN <<>>
            ELSE IF keep(i) THEN Append(F[i - 1], rows[i]) ELSE F[i - 1]
    IN F[Len(rows)]

\* A write that always replaces the file by the new rows
WrittenBoxOverwrite(exists, rows, alr, new_box) == new_box
\* main, lines 99-105: what data/gsw_boxscores.csv holds after the write
WrittenBox(exists, rows, alr, new_box) ==
    IF exists /\ Cardinality(alr) > 0
    THEN DropDuplicatesLast(rows \o new_box)
    ELSE new_box

\* pd.read_csv(out_path): the exception it raises, "none" when it reads
ReadCsvError(exists, rows) ==
    IF ~exists THEN "FileNotFoundError"
    ELSE IF rows = <<>> THEN "EmptyDataError"
    ELSE "none"

CollectInit ==
    /\ boxExists = FALSE
    /\ boxRows = <<>>
    /\ gamesCsv = <<>>
    /\ pc = "idle"
    /\ err = "none"
    /\ game_ids = <<>>
    /\ already = {}
    /\ remaining = <<>>
    /\ idx = 0
    /\ attempt = 0
    /\ parts = <<>>
    /\ cur = 0
    /\ log = <<>>
    /\ ret = <<>>
    /\ box0Exists = FALSE
    /\ box0Rows = <<>>
    /\ lost = {}

\* main, lines 98-108, once get_boxscores has returned new_box (or was not
\* called): the write of the boxscore file and the final read of it.
Persist(new_box, wrote) ==
    LET rows2 == IF wrote THEN WrittenBox(boxExists, boxRows, already, new_box)
                 ELSE boxRows
        ex2 == wrote \/ boxExists
        e == ReadCsvError(ex2, rows2)
    IN /\ boxExists' = ex2
       /\ boxRows' = rows2
       /\ err' = e
       /\ pc' = IF e = "none" THEN "done" ELSE "raised"

\* main, lines 76-98: a run starts, lists the season's games, saves them, and
\* works out what is left to fetch.
StartRun ==
    /\ pc \in {"idle", "done", "raised"}
    /\ \E S \in SUBSET Games :
        LET ids == SortedSeq(S)
            e == IF boxExists THEN ReadCsvError(boxExists, boxRows) ELSE "none"
            alr == Already(boxExists, boxRows)
            rem == Remaining(ids, alr)
        IN /\ game_ids' = ids
           /\ gamesCsv' = ids
           /\ box0Exists' = boxExists
           /\ box0Rows' = boxRows
           /\ lost' = (IF err = "RuntimeError" THEN GameIdsOf(Concat(parts)) ELSE {})
           /\ parts' = <<>>
           /\ log' = <<>>
           /\ ret' = <<>>
           /\ cur' = 0
           /\ IF e # "none"
              THEN /\ pc' = "raised"
                   /\ err' = e
                   /\ already' = {}
                   /\ remaining' = <<>>
                   /\ idx' = 0
                   /\ attempt' = 0
                   /\ UNCHANGED <<boxExists, boxRows>>
              ELSE /\ already' = alr
                   /\ remaining' = rem
                   /\ IF rem = <<>>
                      THEN /\ idx' = 0
                           /\ attempt' = 0
                           /\ Persist(<<>>, FALSE)
                      ELSE /\ idx' = 1
                           /\ attempt' = 1
                           /\ pc' = "fetching"
                           /\ err' = "none"
                           /\ UNCHANGED <<boxExists, boxRows>>

\* The log of the attempt that is about to be made: a new call of
\* fetch_boxscore_safe starts an empty one.
LogNow == IF attempt = 1 THEN <<>> ELSE log

\* get_boxscores, lines 66-73, after fetch_boxscore_safe returned df_part
Returned(df_part) ==
    LET parts2 == IF df_part # <<>> THEN Append(parts, df_part) ELSE parts
    IN /\ ret' = df_part
       /\ parts' = parts2
       /\ IF idx = Len(remaining)
          THEN /\ idx' = idx
               /\ attempt' = 0
               /\ Persist(Concat(parts2), TRUE)
          ELSE /\ idx' = idx + 1
               /\ attempt' = 1
               /\ UNCHANGED <<pc, err, boxExists, boxRows>>

\* fetch_boxscore_safe, lines 46-56: one pass of the loop whose call succeeds
AttemptOk ==
    /\ pc = "fetching"
    /\ \E resp \in APIResponses :
        /\ resp.kind # "error"
        /\ cur' = remaining[idx]
        /\ log' = LogNow \o <<SleepEntry(BASE_SLEEP), CallEntry(resp)>>
        /\ Returned(IF resp.kind = "noframes" THEN <<>>
                    ELSE SetGameId(resp.rows, remaining[idx]))
    /\ UNCHANGED <<gamesCsv, game_ids, already, remaining, box0Exists, box0Rows,
                   lost>>

\* A failed attempt that, when it is the last one, appends the parts fetched so
\* far to the boxscore file before raising
AttemptFailSavesPartial ==
    /\ pc = "fetching"
    /\ cur' = remaining[idx]
    /\ log' = LogNow \o <<SleepEntry(BASE_SLEEP), CallEntry(ErrorResponse),
                          SleepEntry(Backoff(BASE_SLEEP, attempt))>>
    /\ IF LastAttempt(attempt, RETRIES)
       THEN /\ pc' = "raised"
            /\ err' = "RuntimeError"
            /\ attempt' = 0
            /\ boxExists' = (boxExists \/ parts # <<>>)
            /\ boxRows' = boxRows \o Concat(parts)
       ELSE /\ attempt' = attempt + 1
            /\ UNCHANGED <<pc, err, boxExists, boxRows>>
    /\ UNCHANGED <<gamesCsv, game_ids, already, remaining, idx, parts, ret,
                   box0Exists, box0Rows, lost>>

\* fetch_boxscore_safe, lines 46-62: one pass of the loop whose call raises;
\* after the last one RuntimeError is raised, which neither get_boxscores nor
\* main catches.
AttemptFail ==
    /\ pc = "fetching"
    /\ cur' = remaining[idx]
    /\ log' = LogNow \o <<SleepEntry(BASE_SLEEP), CallEntry(ErrorResponse),
                          SleepEntry(Backoff(BASE_SLEEP, attempt))>>
    /\ IF LastAttempt(attempt, RETRIES)
       THEN /\ pc' = "raised"
            /\ err' = "RuntimeError"
            /\ attempt' = 0
       ELSE /\ attempt' = attempt + 1
            /\ UNCHANGED <<pc, err>>
    /\ UNCHANGED <<boxExists, boxRows, gamesCsv, game_ids, already, remaining,
                   idx, parts, ret, box0Exists, box0Rows, lost>>

CollectIdle ==
    /\ CollectInit

(***************************************************************************)
(* common_center_utils.py: strings are sequences of one-character strings  *)
(***************************************************************************)
Alphabet == {"0", "2", "C", "c", "F", "-", " "}

Strings(A, n) == UNION {[1..k -> A] : k \in 0..n}

\* A missing value (NaN) of a text column
NA_STR == <<"NaN">>

Digits == {"0", "1", "2", "3", "4", "5", "6", "7", "8", "9"}

IsDigitString(s) == s # <<>> /\ \A i \in 1..Len(s) : s[i] \in Digits

\* \w of Python's re: letters, digits and the underscore
IsWordChar(c) == c \notin {"-", " "}

\* str.upper on one character
UpperChar(c) ==
    CASE c = "c" -> "C"
      [] c = "d" -> "D"
      [] c = "g" -> "G"
      [] c = "k" -> "K"
      [] c = "l" -> "L"
      [] c = "x" -> "X"
      [] OTHER -> c

\* str.upper
Upper(s) == IF s = <<>> THEN <<>> ELSE [i \in 1..Len(s) |-> UpperChar(s[i])]

RECURSIVE LStrip(_, _)
\* str.lstrip(chars)
LStrip(s, chars) ==
    IF s # <<>> /\ Head(s) \in chars THEN LStrip(Tail(s), chars) ELSE s

RECURSIVE RStrip(_, _)
RStrip(s, chars) ==
    IF s # <<>> /\ s[Len(s)] \in chars
    THEN RStrip(SubSeq(s, 1, Len(s) - 1), chars) ELSE s

\* str.strip()
Strip(s) == RStrip(LStrip(s, {" "}), {" "})

\* .astype(str) of a text value
AsStr(v) == IF v = NA_STR THEN <<"n", "a", "n">> ELSE v

\* normalize_game_ids: GID_NORM = GAME_ID.astype(str).str.lstrip("0")
NormGameId(game_id) == LStrip(AsStr(game_id), {"0"})

\* ensure_start_position: fillna("").astype(str)
EnsureStartPosition(v) == IF v = NA_STR THEN <<>> ELSE v

\* pos.str.contains(r"\bC\b")
ContainsWordC(pos) ==
    \E i \in 1..Len(pos) :
        /\ pos[i] = "C"
        /\ (i = 1 \/ ~IsWordChar(pos[i - 1]))
        /\ (i = Len(pos) \/ ~IsWordChar(pos[i + 1]))

StartsWith(s, c) == s # <<>> /\ s[1] = c
EndsWith(s, c) == s # <<>> /\ s[Len(s)] = c

\* detect_c_starters, lines 67-68: is_center of one row
IsCenterPos(start_position) ==
    LET pos == Strip(Upper(AsStr(start_position)))
    IN ContainsWordC(pos) \/ StartsWith(pos, "C") \/ EndsWith(pos, "C")

\* str.upper().str.strip() of PLAYER_NAME
NormName(name) == Strip(Upper(AsStr(name)))

TextInputs == Strings(Alphabet, MaxLen) \cup {NA_STR}

TextInit ==
    /\ txtIn \in TextInputs
    /\ txtOp = "none"
    /\ gidNorm = <<>>
    /\ isCenter = FALSE

TextIdle ==
    /\ txtIn = <<>>
    /\ txtOp = "off"
    /\ gidNorm = <<>>
    /\ isCenter = FALSE

\* normalize_game_ids on a table whose GAME_ID is txtIn
ApplyNormalizeGameId ==
    /\ txtOp = "none"
    /\ txtOp' = "normalize"
    /\ gidNorm' = NormGameId(txtIn)
    /\ UNCHANGED <<txtIn, isCenter>>

\* ensure_start_position, then detect_c_starters, on a row whose
\* START_POSITION is txtIn
ApplyDetectCStarters ==
    /\ txtOp = "none"
    /\ txtOp' = "detect"
    /\ isCenter' = IsCenterPos(EnsureStartPosition(txtIn))
    /\ UNCHANGED <<txtIn, gidNorm>>

(***************************************************************************)
(* common_center_utils.py: pipeline.  Player names are written by their    *)
(* initials: "DG" is DRAYMOND GREEN, "KL" is KEVON LOONEY, "TJD" is TRAYCE *)
(* JACKSON-DAVIS.  None and an empty value are both falsy for Python's     *)
(* "or", so None is written 0 for a team id and {} for a set of names.     *)
(***************************************************************************)
EXCLUDE_SMALL_BALL_DEFAULT == {<<"D", "G">>}
INCLUDE_TRADITIONAL_DEFAULT == {<<"K", "L">>, <<"T", "J", "D">>}

\* A team other than the default one
OTHER_TEAM_ID == 1610612747
\* The <NA> that pd.to_numeric(errors="coerce").astype("Int64") gives a
\* TEAM_ID that is missing or is no number
NA_INT == -1

\* normalize_team_id
NormalizeTeamId(box) == box

UpperSet(names) == {Upper(n) : n \in names}

\* pipeline, lines 131-132: team_id_final
TeamIdFinal(args) ==
    IF args.env # 0 THEN args.env
    ELSE IF args.team_id # 0 THEN args.team_id ELSE GSW_TEAM_ID_DEFAULT

\* pipeline, line 134: exclude_small_ball_final
ExcludeFinal(args) ==
    IF args.exclude_small_ball # {} THEN args.exclude_small_ball
    ELSE EXCLUDE_SMALL_BALL_DEFAULT

\* pipeline, line 135: include_traditional_final
IncludeFinal(args) ==
    IF args.include_traditional # {} THEN args.include_traditional
    ELSE INCLUDE_TRADITIONAL_DEFAULT

\* normalize_game_ids on the games table
NormalizeGames(games) ==
    IF games = <<>> THEN <<>>
    ELSE [i \in 1..Len(games) |->
            [GAME_ID |-> AsStr(games[i].GAME_ID),
             SEASON_TYPE |-> games[i].SEASON_TYPE,
             GID_NORM |-> NormGameId(games[i].GAME_ID)]]

\* normalize_game_ids and ensure_start_position on the boxscore table
NormalizeBox(box) ==
    IF box = <<>> THEN <<>>
    ELSE [i \in 1..Len(box) |->
            [GAME_ID |-> AsStr(box[i].GAME_ID),
             TEAM_ID |-> box[i].TEAM_ID,
             PLAYER_NAME |-> box[i].PLAYER_NAME,
             START_POSITION |-> EnsureStartPosition(box[i].START_POSITION),
             GID_NORM |-> NormGameId(box[i].GAME_ID)]]

\* A filter_regular_season_and_playoffs that always goes by the prefix of the
\* normalized game id, whether or not there is a SEASON_TYPE column
FilterByPrefixOnly(games, seasonCol) ==
    SelectSeq(games, LAMBDA g : StartsWith(g.GID_NORM, "2") \/ StartsWith(g.GID_NORM, "4"))
\* filter_regular_season_and_playoffs
FilterRegularSeasonAndPlayoffs(games, seasonCol) ==
    IF seasonCol
    THEN SelectSeq(games, LAMBDA g : g.SEASON_TYPE \in {"Regular Season", "Playoffs"})
    ELSE SelectSeq(games, LAMBDA g : StartsWith(g.GID_NORM, "2") \/ StartsWith(g.GID_NORM, "4"))

\* A build_box_gsw that keeps the rows of the team whatever their game
BuildBoxGswAnyGame(box, games, team_id) ==
    SelectSeq(box, LAMBDA b : b.TEAM_ID # NA_INT /\ b.TEAM_ID = team_id)
\* build_box_gsw
BuildBoxGsw(box, games, team_id) ==
    LET valid_gid_norm == {games[i].GID_NORM : i \in 1..Len(games)}
    IN SelectSeq(box, LAMBDA b : /\ b.TEAM_ID # NA_INT
                                 /\ b.TEAM_ID = team_id
                                 /\ b.GID_NORM \in valid_gid_norm)

\* detect_c_starters
DetectCStarters(box_gsw) ==
    LET centers == SelectSeq(box_gsw, LAMBDA b : IsCenterPos(b.START_POSITION))
    IN IF centers = <<>> THEN <<>>
       ELSE [i \in 1..Len(centers) |->
                [GID_NORM |-> centers[i].GID_NORM,
                 PLAYER_NAME |-> centers[i].PLAYER_NAME,
                 PLAYER_NAME_NORM |-> NormName(centers[i].PLAYER_NAME)]]

\* A build_allowed_traditional_set that does not take the exclude list out
BuildAllowedKeepExcluded(starters_c, exclude_small_ball, include_traditional) ==
    {starters_c[i].PLAYER_NAME_NORM : i \in 1..Len(starters_c)}
        \cup UpperSet(include_traditional)
\* build_allowed_traditional_set
BuildAllowedTraditionalSet(starters_c, exclude_small_ball, include_traditional) ==
    LET detected == {starters_c[i].PLAYER_NAME_NORM : i \in 1..Len(starters_c)}
    IN (detected \ UpperSet(exclude_small_ball)) \cup UpperSet(include_traditional)

\* label_has_traditional_center: the HAS_CENTER of every row of games
LabelHasTraditionalCenter(games, starters_c, allowed_trad) ==
    LET allowed_games ==
            {starters_c[i].GID_NORM :
                i \in {k \in 1..Len(starters_c) :
                        starters_c[k].PLAYER_NAME_NORM \in allowed_trad}}
    IN IF games = <<>> THEN <<>>
       ELSE [i \in 1..Len(games) |-> games[i].GID_NORM \in allowed_games]

SeqsUpTo(S, n) == UNION {[1..k -> S] : k \in 0..n}

\* The rows a games table is made of
GameRows ==
    { [GAME_ID |-> <<"2", "1">>, SEASON_TYPE |-> "Regular Season"],
      [GAME_ID |-> <<"0", "0", "4", "1">>, SEASON_TYPE |-> "Playoffs"],
      [GAME_ID |-> <<"1", "1">>, SEASON_TYPE |-> "Pre Season"],
      [GAME_ID |-> <<"2", "2">>, SEASON_TYPE |-> "Pre Season"] }

BoxRow(g, t, n, p) ==
    [GAME_ID |-> g, TEAM_ID |-> t, PLAYER_NAME |-> n, START_POSITION |-> p]

\* The rows a boxscore table is made of
BoxRows ==
    { BoxRow(<<"0", "0", "2", "1">>, GSW_TEAM_ID_DEFAULT, <<"K", "l">>, <<"C">>),
      BoxRow(<<"0", "0", "4", "1">>, GSW_TEAM_ID_DEFAULT, <<" ", "d", "g", " ">>, <<"c">>),
      BoxRow(<<"0", "0", "2", "1">>, GSW_TEAM_ID_DEFAULT, <<"X">>, <<"F", "-", "C">>),
      BoxRow(<<"0", "0", "2", "1">>, OTHER_TEAM_ID, <<"X">>, <<"C">>),
      BoxRow(<<"0", "0", "4", "1">>, GSW_TEAM_ID_DEFAULT, <<"X">>, NA_STR),
      BoxRow(<<"0", "0", "2", "1">>, NA_INT, <<"K", "l">>, <<"C">>) }

\* The other arguments of pipeline, and the TEAM_ID of the environment
PipelineArgs ==
    { [env |-> t[1], team_id |-> t[2], exclude_small_ball |-> l[1],
       include_traditional |-> l[2]] :
        t \in {<<0, 0>>, <<OTHER_TEAM_ID, GSW_TEAM_ID_DEFAULT>>},
        l \in {<<{}, {}>>, <<{<<"x">>}, {}>>, <<{}, {<<"d", "g">>}>>} }

PipeInit ==
    /\ pPc = "ready"
    /\ pGames \in SeqsUpTo(GameRows, MaxGameRows)
    /\ pSeasonCol \in BOOLEAN
    /\ pBox \in SeqsUpTo(BoxRows, MaxBoxRows)
    /\ pArgs \in PipelineArgs
    /\ outGames = <<>>
    /\ outBoxGsw = <<>>
    /\ outStarters = <<>>
    /\ outAllowed = {}

PipeIdle ==
    /\ pPc = "off"
    /\ pGames = <<>>
    /\ pSeasonCol = FALSE
    /\ pBox = <<>>
    /\ pArgs = [env |-> 0, team_id |-> 0, exclude_small_ball |-> {},
                include_traditional |-> {}]
    /\ outGames = <<>>
    /\ outBoxGsw = <<>>
    /\ outStarters = <<>>
    /\ outAllowed = {}

\* pipeline
Pipeline ==
    /\ pPc = "ready"
    /\ LET team_id_final == TeamIdFinal(pArgs)
           games == FilterRegularSeasonAndPlayoffs(NormalizeGames(pGames), pSeasonCol)
           box == NormalizeTeamId(NormalizeBox(pBox))
           box_gsw == BuildBoxGsw(box, games, team_id_final)
           starters_c == DetectCStarters(box_gsw)
           allowed_trad == BuildAllowedTraditionalSet(
                               starters_c, ExcludeFinal(pArgs), IncludeFinal(pArgs))
           has_center == LabelHasTraditionalCenter(games, starters_c, allowed_trad)
       IN /\ outGames' = (IF games = <<>> THEN <<>>
                          ELSE [i \in 1..Len(games) |->
                                  [GAME_ID |-> games[i].GAME_ID,
                                   SEASON_TYPE |-> games[i].SEASON_TYPE,
                                   GID_NORM |-> games[i].GID_NORM,
                                   HAS_CENTER |-> has_center[i]]])
          /\ outBoxGsw' = box_gsw
          /\ outStarters' = starters_c
          /\ outAllowed' = allowed_trad
    /\ pPc' = "done"
    /\ UNCHANGED <<pGames, pSeasonCol, pBox, pArgs>>

\* analyze_center_impact.py, line 14: games[games["HAS_CENTER"]]
with_center(games) == SelectSeq(games, LAMBDA g : g.HAS_CENTER)

\* analyze_center_impact.py, line 15: games[~games["HAS_CENTER"]]
without_center(games) == SelectSeq(games, LAMBDA g : ~g.HAS_CENTER)

(***************************************************************************)
(* common_center_utils.py: win_rate and summarize_games.  A ratio is kept  *)
(* as numerator and denominator; 0/0 is NaN.  The means of PTS and PTS_OPP *)
(* that summarize_games and team_eff also compute are left out.            *)
(***************************************************************************)
NaN == [num |-> 0, den |-> 0]

\* win_rate: (df["WL"] == "W").mean(), NaN for an empty frame
win_rate(df) ==
    IF df = <<>> THEN NaN
    ELSE [num |-> Cardinality({i \in 1..Len(df) : df[i].WL = "W"}), den |-> Len(df)]

\* summarize_games, line 91: games_played = ("GAME_DATE", "count"), the
\* number of GAME_DATE values of the group that are not missing
GamesPlayed(games, h) ==
    Cardinality({i \in 1..Len(games) :
                    games[i].HAS_CENTER = h /\ games[i].GAME_DATE # "NaT"})

\* summarize_games, line 92: wins = number of WL == "W" in the group
Wins(games, h) ==
    Cardinality({i \in 1..Len(games) : games[i].HAS_CENTER = h /\ games[i].WL = "W"})

\* summarize_games: one row per HAS_CENTER group, with
\* win_rate = wins / games_played * 100
summarize_games(games) ==
    {[HAS_CENTER |-> h,
      games_played |-> GamesPlayed(games, h),
      wins |-> Wins(games, h),
      win_rate |-> [num |-> 100 * Wins(games, h), den |-> GamesPlayed(games, h)]] :
        h \in {games[i].HAS_CENTER : i \in 1..Len(games)}}

\* The labelled games: GAME_DATE and WL may be missing in the CSV file
SummaryRows ==
    [GAME_DATE : {"2024-10-23", "NaT"}, WL : {"W", "L", "NaN"}, HAS_CENTER : BOOLEAN]

SummaryInit ==
    /\ sPc = "ready"
    /\ sGames \in SeqsUpTo(SummaryRows, MaxSummaryRows)
    /\ wrWith = NaN
    /\ wrWithout = NaN
    /\ summary = {}

SummaryIdle ==
    /\ sPc = "off"
    /\ sGames = <<>>
    /\ wrWith = NaN
    /\ wrWithout = NaN
    /\ summary = {}

\* analyze_center_impact.py, lines 14-15 and 22-23: the two splits and
\* their win rates
AnalyzeSplits ==
    /\ sPc = "ready"
    /\ sPc' = "analyzed"
    /\ wrWith' = win_rate(SelectSeq(sGames, LAMBDA r : r.HAS_CENTER))
    /\ wrWithout' = win_rate(SelectSeq(sGames, LAMBDA r : ~r.HAS_CENTER))
    /\ UNCHANGED <<sGames, summary>>

\* summarize_games on the labelled games
SummarizeGames ==
    /\ sPc = "ready"
    /\ sPc' = "summarized"
    /\ summary' = summarize_games(sGames)
    /\ UNCHANGED <<sGames, wrWith, wrWithout>>

(***************************************************************************)
(* clean_csvs.py and the loading of analyze_center_impact.py.  A team      *)
(* abbreviation is written by its first letter.                            *)
(***************************************************************************)
\* The characters in the order of their code points
CharOrder == <<" ", "-", "0", "1", "2", "4", "C", "D", "F", "G", "J", "K", "L",
               "T", "X", "c", "d", "g", "k", "l", "x">>

CharRank(c) == CHOOSE i \in 1..Len(CharOrder) : CharOrder[i] = c

RECURSIVE StrLess(_, _)
\* a < b for two strings
StrLess(a, b) ==
    IF b = <<>> THEN FALSE
    ELSE IF a = <<>> THEN TRUE
    ELSE IF CharRank(Head(a)) # CharRank(Head(b)) THEN CharRank(Head(a)) < CharRank(Head(b))
    ELSE StrLess(Tail(a), Tail(b))

\* normalize_team_cols on the games file
NormalizeTeamColsGames(rows) ==
    IF rows = <<>> THEN <<>>
    ELSE [i \in 1..Len(rows) |->
            [TEAM_ID |-> rows[i].TEAM_ID,
             TEAM_ABBREVIATION |-> Upper(Strip(AsStr(rows[i].TEAM_ABBREVIATION))),
             GAME_DATE |-> rows[i].GAME_DATE]]

\* normalize_team_cols on the boxscore file
NormalizeTeamColsBox(rows) ==
    IF rows = <<>> THEN <<>>
    ELSE [i \in 1..Len(rows) |->
            [TEAM_ID |-> rows[i].TEAM_ID,
             TEAM_ABBREVIATION |-> Upper(Strip(AsStr(rows[i].TEAM_ABBREVIATION))),
             PLAYER_NAME |-> rows[i].PLAYER_NAME,
             GAME_ID |-> rows[i].GAME_ID]]

\* clean_games: sort_cols = TEAM_ID, TEAM_ABBREVIATION, GAME_DATE
GamesLess(a, b) ==
    \/ a.TEAM_ID < b.TEAM_ID
    \/ /\ a.TEAM_ID = b.TEAM_ID
       /\ \/ StrLess(a.TEAM_ABBREVIATION, b.TEAM_ABBREVIATION)
          \/ /\ a.TEAM_ABBREVIATION = b.TEAM_ABBREVIATION
             /\ a.GAME_DATE < b.GAME_DATE

\* clean_boxscores: sort_cols = TEAM_ID, TEAM_ABBREVIATION, _PLAYER_NAME_KEY,
\* _GID_NORM
BoxLess(a, b) ==
    LET ka == Upper(Strip(AsStr(a.PLAYER_NAME)))
        kb == Upper(Strip(AsStr(b.PLAYER_NAME)))
    IN \/ a.TEAM_ID < b.TEAM_ID
       \/ /\ a.TEAM_ID = b.TEAM_ID
          /\ \/ StrLess(a.TEAM_ABBREVIATION, b.TEAM_ABBREVIATION)
             \/ /\ a.TEAM_ABBREVIATION = b.TEAM_ABBREVIATION
                /\ \/ StrLess(ka, kb)
                   \/ /\ ka = kb
                      /\ StrLess(NormGameId(a.GAME_ID), NormGameId(b.GAME_ID))

\* Where a stable sort puts row r in rows already sorted: after the k rows
\* that are not greater than r
InsertAt(sorted, r, k) ==
    SubSeq(sorted, 1, k) \o <<r>> \o SubSeq(sorted, k + 1, Len(sorted))

\* clean_games: games.sort_values(sort_cols, kind="mergesort")
SortGames(rows) ==
    LET F[i \in 0..Len(rows)] ==
            IF i = 0 THEN <<>>
            ELSE InsertAt(F[i - 1], rows[i],
                    Cardinality({j \in 1..Len(F[i - 1]) : ~GamesLess(rows[i], F[i - 1][j])}))
    IN F[Len(rows)]

\* clean_boxscores: box.sort_values(sort_cols, kind="mergesort")
SortBox(rows) ==
    LET F[i \in 0..Len(rows)] ==
            IF i = 0 THEN <<>>
            ELSE InsertAt(F[i - 1], rows[i],
                    Cardinality({j \in 1..Len(F[i - 1]) : ~BoxLess(rows[i], F[i - 1][j])}))
    IN F[Len(rows)]

\* save_sorted of the sorted table and of its groups by TEAM_ABBREVIATION
SavedFiles(sorted, kind) ==
    {[dir |-> "cleaned", team |-> <<>>, kind |-> kind, rows |-> sorted]}
    \cup {[dir |-> "teams", team |-> abbr, kind |-> kind,
           rows |-> SelectSeq(sorted, LAMBDA r : r.TEAM_ABBREVIATION = abbr)] :
            abbr \in {sorted[i].TEAM_ABBREVIATION : i \in 1..Len(sorted)}}

\* save_sorted overwrites a file of the same path
WriteFiles(out, files) ==
    {f \in out : \A g \in files : <<g.dir, g.team, g.kind>> # <<f.dir, f.team, f.kind>>}
        \cup files

\* save_sorted prints one line for every file it writes
SavedLines(files) == [i \in 1..Cardinality(files) |-> "Saved"]

Absent == [exists |-> FALSE, rows |-> <<>>]

GamesFileRows ==
    { [TEAM_ID |-> GSW_TEAM_ID_DEFAULT, TEAM_ABBREVIATION |-> <<"g", " ">>, GAME_DATE |-> 2],
      [TEAM_ID |-> GSW_TEAM_ID_DEFAULT, TEAM_ABBREVIATION |-> <<"G">>, GAME_DATE |-> 1],
      [TEAM_ID |-> OTHER_TEAM_ID, TEAM_ABBREVIATION |-> <<"L">>, GAME_DATE |-> 1] }

BoxFileRows ==
    { [TEAM_ID |-> GSW_TEAM_ID_DEFAULT, TEAM_ABBREVIATION |-> <<"G">>,
       PLAYER_NAME |-> <<"K", "l">>, GAME_ID |-> <<"0", "0", "2", "2">>],
      [TEAM_ID |-> GSW_TEAM_ID_DEFAULT, TEAM_ABBREVIATION |-> <<"G">>,
       PLAYER_NAME |-> <<"d", "g">>, GAME_ID |-> <<"0", "0", "2", "1">>],
      [TEAM_ID |-> OTHER_TEAM_ID, TEAM_ABBREVIATION |-> <<"L">>,
       PLAYER_NAME |-> <<"X">>, GAME_ID |-> <<"0", "0", "2", "1">>] }

FilesOf(Rows) ==
    {Absent} \cup {[exists |-> TRUE, rows |-> r] : r \in SeqsUpTo(Rows, MaxFileRows)}

FilesInit ==
    /\ fScript \in {"clean_csvs", "analyze_center_impact"}
    /\ fPc = "start"
    /\ fErr = "none"
    /\ fGames \in FilesOf(GamesFileRows)
    /\ fBox \in FilesOf(BoxFileRows)
    /\ fOut = {}
    /\ console = <<>>

FilesIdle ==
    /\ fScript = "off"
    /\ fPc = "off"
    /\ fErr = "none"
    /\ fGames = Absent
    /\ fBox = Absent
    /\ fOut = {}
    /\ console = <<>>

\* A clean_games that reads the games file without testing that it exists
CleanGamesRaises ==
    /\ fScript = "clean_csvs"
    /\ fPc = "start"
    /\ IF ~fGames.exists
       THEN /\ fPc' = "raised"
            /\ fErr' = "FileNotFoundError"
            /\ UNCHANGED <<fOut, console>>
       ELSE /\ fPc' = "games_done"
            /\ fOut' = WriteFiles(fOut, SavedFiles(
                          SortGames(NormalizeTeamColsGames(fGames.rows)), "games"))
            /\ console' = console \o SavedLines(SavedFiles(
                          SortGames(NormalizeTeamColsGames(fGames.rows)), "games"))
            /\ UNCHANGED fErr
    /\ UNCHANGED <<fScript, fGames, fBox>>

\* clean_csvs.py: clean_games
CleanGames ==
    /\ fScript = "clean_csvs"
    /\ fPc = "start"
    /\ fPc' = "games_done"
    /\ IF ~fGames.exists
       THEN /\ console' = Append(console, "Skipping games (not found)")
            /\ UNCHANGED fOut
       ELSE /\ fOut' = WriteFiles(fOut, SavedFiles(
                          SortGames(NormalizeTeamColsGames(fGames.rows)), "games"))
            /\ console' = console \o SavedLines(SavedFiles(
                          SortGames(NormalizeTeamColsGames(fGames.rows)), "games"))
    /\ UNCHANGED <<fScript, fErr, fGames, fBox>>

\* clean_csvs.py: clean_boxscores, and the print that ends the script
CleanBoxscores ==
    /\ fScript = "clean_csvs"
    /\ fPc = "games_done"
    /\ fPc' = "done"
    /\ IF ~fBox.exists
       THEN /\ console' = console \o <<"Skipping boxscores (not found)", "Done.">>
            /\ UNCHANGED fOut
       ELSE /\ fOut' = WriteFiles(fOut, SavedFiles(
                          SortBox(NormalizeTeamColsBox(fBox.rows)), "boxscores"))
            /\ console' = console \o SavedLines(SavedFiles(
                          SortBox(NormalizeTeamColsBox(fBox.rows)), "boxscores")) \o <<"Done.">>
    /\ UNCHANGED <<fScript, fErr, fGames, fBox>>

\* analyze_center_impact.py, lines 7-8: the two pd.read_csv; a missing file
\* raises FileNotFoundError, which ends the script
AnalyzeLoad ==
    /\ fScript = "analyze_center_impact"
    /\ fPc = "start"
    /\ IF fGames.exists /\ fBox.exists
       THEN /\ fPc' = "loaded"
            /\ UNCHANGED fErr
       ELSE /\ fPc' = "raised"
            /\ fErr' = "FileNotFoundError"
    /\ UNCHANGED <<fScript, fGames, fBox, fOut, console>>

(***************************************************************************)
(* Specifications                                                          *)
(***************************************************************************)
\* A sequence of runs of gsw_collect.py
Init == CollectInit /\ TextIdle /\ PipeIdle /\ SummaryIdle /\ FilesIdle

Next ==
    \/ StartRun /\ UNCHANGED <<textVars, pipeVars, summaryVars, fileVars>>
    \/ AttemptOk /\ UNCHANGED <<textVars, pipeVars, summaryVars, fileVars>>
    \/ AttemptFail /\ UNCHANGED <<textVars, pipeVars, summaryVars, fileVars>>

Spec == Init /\ [][Next]_vars

\* The text functions of common_center_utils.py on one value
InitText == TextInit /\ CollectIdle /\ PipeIdle /\ SummaryIdle /\ FilesIdle

NextText ==
    \/ ApplyNormalizeGameId /\ UNCHANGED <<collectVars, pipeVars, summaryVars, fileVars>>
    \/ ApplyDetectCStarters /\ UNCHANGED <<collectVars, pipeVars, summaryVars, fileVars>>

SpecText == InitText /\ [][NextText]_vars

\* One call of pipeline of common_center_utils.py
InitPipeline == PipeInit /\ CollectIdle /\ TextIdle /\ SummaryIdle /\ FilesIdle

NextPipeline == Pipeline /\ UNCHANGED <<collectVars, textVars, summaryVars, fileVars>>

SpecPipeline == InitPipeline /\ [][NextPipeline]_vars

\* win_rate on the two splits, or summarize_games, on labelled games
InitSummary == SummaryInit /\ CollectIdle /\ TextIdle /\ PipeIdle /\ FilesIdle

NextSummary ==
    \/ AnalyzeSplits /\ UNCHANGED <<collectVars, textVars, pipeVars, fileVars>>
    \/ SummarizeGames /\ UNCHANGED <<collectVars, textVars, pipeVars, fileVars>>

SpecSummary == InitSummary /\ [][NextSummary]_vars

\* One run of clean_csvs.py, or the loading of analyze_center_impact.py
InitFiles == FilesInit /\ CollectIdle /\ TextIdle /\ PipeIdle /\ SummaryIdle

NextFiles ==
    \/ CleanGames /\ UNCHANGED <<collectVars, textVars, pipeVars, summaryVars>>
    \/ CleanBoxscores /\ UNCHANGED <<collectVars, textVars, pipeVars, summaryVars>>
    \/ AnalyzeLoad /\ UNCHANGED <<collectVars, textVars, pipeVars, summaryVars>>

SpecFiles == InitFiles /\ [][NextFiles]_vars

(***************************************************************************)
(* Properties of gsw_collect.py                                            *)
(***************************************************************************)
CallsOf(l) == SelectSeq(l, LAMBDA e : e.kind = "call")

\* The sleeps that follow a failed call, in order
BackoffsOf(l) ==
    LET F[i \in 0..Len(l)] ==
            IF i = 0 THEN <<>>
            ELSE IF i > 1 /\ l[i].kind = "sleep" /\ l[i - 1].kind = "call"
                 THEN Append(F[i - 1], l[i].d) ELSE F[i - 1]
    IN F[Len(l)]

\* What fetch_boxscore_safe returns for the response of a call that succeeded
ResultOf(e, g) == IF e.res = "noframes" THEN <<>> ELSE SetGameId(e.rows, g)

\* What holds of the log of a call of fetch_boxscore_safe in every state
C1_State ==
    /\ Len(CallsOf(log)) <= RETRIES
    /\ \A i \in 1..Len(log) :
        (log[i].kind = "call" /\ log[i].res # "error") =>
            /\ i = Len(log)
            /\ \A j \in 1..(i - 1) : log[j].kind = "call" => log[j].res = "error"
            /\ ret = ResultOf(log[i], cur)
    /\ (err = "RuntimeError") <=>
            /\ pc = "raised"
            /\ Len(CallsOf(log)) = RETRIES
            /\ \A i \in 1..Len(log) : log[i].kind = "call" => log[i].res = "error"

\* C1: fetch_boxscore_safe makes at most RETRIES HTTP attempts for one game
\* id; the first attempt that succeeds ends the call, which returns that
\* attempt's result; when all RETRIES attempts fail RuntimeError is raised,
\* nothing catches it, and the run takes no further step (the only step
\* after it is the start of another run).
C1_Retries ==
    [][C1_State' /\ (err = "RuntimeError" => (pc = "raised" /\ StartRun))]_vars

\* All attempts for the second game of a run failed
C1_Witness ==
    /\ err = "RuntimeError"
    /\ idx = 2
    /\ parts # <<>>
    /\ Len(CallsOf(log)) = RETRIES

\* A call returned on its third attempt, the first that succeeded
C1_WitnessFirstSuccess ==
    /\ pc = "fetching"
    /\ Len(CallsOf(log)) = 3
    /\ log[Len(log)].res = "frames"
    /\ ret # <<>>

\* Every HTTP call comes right after a sleep of base_sleep, and every failed
\* call is followed by a backoff sleep.
C7_FixedDelay ==
    \A i \in 1..Len(log) :
        log[i].kind = "call" =>
            /\ i > 1
            /\ log[i - 1] = SleepEntry(BASE_SLEEP)
            /\ (log[i].res = "error") =>
                    (i < Len(log) /\ log[i + 1].kind = "sleep")

\* Each backoff is longer than the one before
C7_Growing == \A k \in 2..Len(BackoffsOf(log)) :
    BackoffsOf(log)[k] > BackoffsOf(log)[k - 1]

\* The ratio of a backoff to the one before is the same all along
C7_ConstantRatio == \A k \in 3..Len(BackoffsOf(log)) :
    BackoffsOf(log)[k] * BackoffsOf(log)[k - 2]
        = BackoffsOf(log)[k - 1] * BackoffsOf(log)[k - 1]

\* C7: every HTTP call comes right after a sleep of base_sleep, every failed
\* call is followed by a backoff sleep, and the backoffs grow exponentially:
\* each is the same multiple, greater than 1, of the one before.
C7_ExponentialBackoff == C7_FixedDelay /\ C7_Growing /\ C7_ConstantRatio

\* C9: a game whose GAME_ID is in the boxscore file when a run starts is not
\* fetched in that run, and every row the file held when the run started is
\* still in it, unless a row fetched in this run with the same
\* (GAME_ID, PLAYER_ID) took its place.
C9_ResumeSafe ==
    /\ (log # <<>>) => cur \notin GameIdsOf(box0Rows)
    /\ \A i \in 1..Len(box0Rows) :
        \/ box0Rows[i] \in Range(boxRows)
        \/ \E r \in Range(Concat(parts)) :
                /\ Key(r) = Key(box0Rows[i])
                /\ r \in Range(boxRows)

C9_Witness ==
    /\ pc = "done"
    /\ box0Rows # <<>>
    /\ Len(boxRows) > Len(box0Rows)
    /\ \E g \in Range(game_ids) : g \in already
    /\ Len(remaining) < Len(game_ids)
    /\ parts # <<>>

\* C10: when a fetch exhausts its retries, the boxscore file is as it was
\* when the run started, none of the boxscores fetched earlier in the run is
\* in it, and the next run has every one of them that is still listed among
\* the games in its remaining list.
C10_NothingPersisted ==
    /\ (err = "RuntimeError") =>
            /\ boxExists = box0Exists
            /\ boxRows = box0Rows
            /\ GameIdsOf(Concat(parts)) \cap GameIdsOf(boxRows) = {}
    /\ \A g \in lost : g \in Range(game_ids) => g \in Range(remaining)

C10_Witness ==
    /\ lost # {}
    /\ pc = "fetching"
    /\ log # <<>>
    /\ cur \in lost

(***************************************************************************)
(* Properties of the text functions of common_center_utils.py              *)
(***************************************************************************)
Contains(s, c) == \E i \in 1..Len(s) : s[i] = c

\* C3: a row is flagged as a center starter if and only if its start
\* position, upper-cased and trimmed, contains "C"; a missing start position
\* counts as empty and is not flagged.
C3_FlaggedIffContainsC ==
    (txtOp = "detect") =>
        (isCenter <=> Contains(Strip(Upper(EnsureStartPosition(txtIn))), "C"))

\* C6: the GID_NORM of every GAME_ID that is a digit string, those made only
\* of zeros included, is a non-empty string of digits.
C6_GidNormNonEmptyDigits ==
    (txtOp = "normalize" /\ IsDigitString(txtIn)) => IsDigitString(gidNorm)

(***************************************************************************)
(* Properties of pipeline                                                  *)
(***************************************************************************)
\* The rows of the box argument that belong to the selected team and to the
\* game whose normalized id is gid
TeamRowsOf(gid) ==
    {j \in 1..Len(pBox) :
        /\ pBox[j].TEAM_ID = TeamIdFinal(pArgs)
        /\ LStrip(pBox[j].GAME_ID, {"0"}) = gid}

CenterRow(j) == IsCenterPos(EnsureStartPosition(pBox[j].START_POSITION))

NameOf(j) == Strip(Upper(pBox[j].PLAYER_NAME))

\* (names detected as center starters minus the exclude list) union the
\* include list
C2_Allowed ==
    LET detected == {NameOf(j) : j \in {k \in 1..Len(pBox) :
                        /\ CenterRow(k)
                        /\ \E i \in 1..Len(outGames) :
                              k \in TeamRowsOf(outGames[i].GID_NORM)}}
    IN (detected \ UpperSet(ExcludeFinal(pArgs))) \cup UpperSet(IncludeFinal(pArgs))

\* C2: a returned game has HAS_CENTER exactly when some row of the selected
\* team for that game has a center start position and a normalized player
\* name in the allowed set, (detected minus exclude) union include; a game
\* whose center starters are all on the exclude list and not on the include
\* list has HAS_CENTER false.
C2_HasCenter ==
    (pPc = "done") =>
        /\ outAllowed = C2_Allowed
        /\ \A i \in 1..Len(outGames) :
            /\ outGames[i].HAS_CENTER <=>
                    \E j \in TeamRowsOf(outGames[i].GID_NORM) :
                        CenterRow(j) /\ NameOf(j) \in C2_Allowed
            /\ (\A j \in TeamRowsOf(outGames[i].GID_NORM) :
                    CenterRow(j) =>
                        /\ NameOf(j) \in UpperSet(ExcludeFinal(pArgs))
                        /\ NameOf(j) \notin UpperSet(IncludeFinal(pArgs)))
                => ~outGames[i].HAS_CENTER

C2_Witness ==
    /\ pPc = "done"
    /\ \E i \in 1..Len(outGames) : outGames[i].HAS_CENTER
    /\ \E i \in 1..Len(outGames) :
        /\ ~outGames[i].HAS_CENTER
        /\ \E j \in TeamRowsOf(outGames[i].GID_NORM) :
            /\ CenterRow(j)
            /\ NameOf(j) \in UpperSet(ExcludeFinal(pArgs))

\* C5: every row of box_gsw has the selected team id, and its normalized game
\* id is that of some game of the returned games table.
C5_BoxRowsReferenceGames ==
    (pPc = "done") =>
        \A j \in 1..Len(outBoxGsw) :
            /\ outBoxGsw[j].TEAM_ID = TeamIdFinal(pArgs)
            /\ outBoxGsw[j].GID_NORM = LStrip(outBoxGsw[j].GAME_ID, {"0"})
            /\ \E i \in 1..Len(outGames) :
                    LStrip(outGames[i].GAME_ID, {"0"}) = outBoxGsw[j].GID_NORM

C5_Witness ==
    /\ pPc = "done"
    /\ Len(outBoxGsw) = 1
    /\ Len(pBox) = 2
    /\ pBox[1].TEAM_ID = TeamIdFinal(pArgs)
    /\ pBox[2].TEAM_ID = TeamIdFinal(pArgs)
    /\ Len(outGames) < Len(pGames)

\* The positions of the games handed to pipeline that are regular-season or
\* playoff games: by SEASON_TYPE when the column is there, otherwise by the
\* first character of the game id without its leading zeros
C11_Kept ==
    {i \in 1..Len(pGames) :
        IF pSeasonCol
        THEN pGames[i].SEASON_TYPE = "Regular Season" \/ pGames[i].SEASON_TYPE = "Playoffs"
        ELSE LET gid == LStrip(pGames[i].GAME_ID, {"0"})
             IN Len(gid) > 0 /\ (gid[1] = "2" \/ gid[1] = "4")}

\* The position in the returned table of the kept game at position i
C11_Rank(i) == Cardinality({k \in C11_Kept : k <= i})

C11_SameGame(out, in) ==
    out.GAME_ID = in.GAME_ID /\ out.SEASON_TYPE = in.SEASON_TYPE

\* C11: the games table returned by pipeline holds exactly the games that are
\* regular-season or playoff games (SEASON_TYPE "Regular Season" or
\* "Playoffs" when the column is present, otherwise normalized game id
\* starting with "2" or "4"), in the order they came in; every other game is
\* in neither the returned table nor the with-center or without-center
\* split, and the two splits are made of returned games only.
C11_KeepsRegularSeasonAndPlayoffs ==
    (pPc = "done") =>
        /\ Len(outGames) = Cardinality(C11_Kept)
        /\ \A i \in C11_Kept : C11_SameGame(outGames[C11_Rank(i)], pGames[i])
        /\ \A i \in (1..Len(pGames)) \ C11_Kept :
              /\ \A j \in 1..Len(outGames) : ~C11_SameGame(outGames[j], pGames[i])
              /\ \A j \in 1..Len(with_center(outGames)) :
                    ~C11_SameGame(with_center(outGames)[j], pGames[i])
              /\ \A j \in 1..Len(without_center(outGames)) :
                    ~C11_SameGame(without_center(outGames)[j], pGames[i])
        /\ Len(with_center(outGames)) + Len(without_center(outGames)) = Len(outGames)
        /\ \A j \in 1..Len(with_center(outGames)) :
              \E i \in C11_Kept : C11_SameGame(with_center(outGames)[j], pGames[i])
        /\ \A j \in 1..Len(without_center(outGames)) :
              \E i \in C11_Kept : C11_SameGame(without_center(outGames)[j], pGames[i])

\* pipeline has returned for a table with a SEASON_TYPE column in which a
\* pre-season game whose id starts with "2" lies before a playoff game: the
\* first is dropped, the second kept and found in the with-center split
C11_Witness ==
    /\ pPc = "done"
    /\ pSeasonCol
    /\ Len(pGames) = 2
    /\ pGames[1].SEASON_TYPE = "Pre Season"
    /\ LStrip(pGames[1].GAME_ID, {"0"})[1] = "2"
    /\ pGames[2].SEASON_TYPE = "Playoffs"
    /\ Len(outGames) = 1
    /\ Len(with_center(outGames)) = 1

\* pipeline has returned for a table without a SEASON_TYPE column: a game
\* whose id starts with "1" is dropped, and two kept games keep their order
\* and fall in the without-center split
C11_WitnessPrefix ==
    /\ pPc = "done"
    /\ ~pSeasonCol
    /\ Len(pGames) = 2
    /\ Len(outGames) = 2
    /\ outGames[1].GAME_ID # outGames[2].GAME_ID
    /\ Len(without_center(outGames)) = 2

(***************************************************************************)
(* Properties of win_rate and summarize_games                              *)
(***************************************************************************)
GamesOfGroup(h) == SelectSeq(sGames, LAMBDA r : r.HAS_CENTER = h)

WinsOf(rows) == Cardinality({i \in 1..Len(rows) : rows[i].WL = "W"})

\* ratio = k * wins / games played, for a non-empty set of games
IsWinRatio(ratio, k, rows) ==
    /\ ratio.den # 0
    /\ ratio.num * Len(rows) = k * WinsOf(rows) * ratio.den

\* C4: for every non-empty set of games, win_rate returns the number of games
\* with WL = "W" divided by the number of games of the set, and
\* summarize_games reports 100 times that ratio for each HAS_CENTER group.
C4_WinRate ==
    /\ (sPc = "analyzed") =>
        /\ GamesOfGroup(TRUE) # <<>> => IsWinRatio(wrWith, 1, GamesOfGroup(TRUE))
        /\ GamesOfGroup(FALSE) # <<>> => IsWinRatio(wrWithout, 1, GamesOfGroup(FALSE))
    /\ (sPc = "summarized") =>
        \A h \in BOOLEAN :
            GamesOfGroup(h) # <<>> =>
                \E row \in summary :
                    /\ row.HAS_CENTER = h
                    /\ IsWinRatio(row.win_rate, 100, GamesOfGroup(h))

\* The part of C4 about win_rate alone
C4_WinRateOfSplits ==
    (sPc = "analyzed") =>
        /\ GamesOfGroup(TRUE) # <<>> => IsWinRatio(wrWith, 1, GamesOfGroup(TRUE))
        /\ GamesOfGroup(FALSE) # <<>> => IsWinRatio(wrWithout, 1, GamesOfGroup(FALSE))

(***************************************************************************)
(* Properties of the handling of missing input files                       *)
(***************************************************************************)
Printed(msg) == \E i \in 1..Len(console) : console[i] = msg

Written(kind) == {f \in fOut : f.kind = kind}

\* clean_games has run
GamesStepRan == fScript = "clean_csvs" /\ fPc \in {"games_done", "done"}

\* clean_boxscores has run
BoxStepRan == fScript = "clean_csvs" /\ fPc = "done"

\* The loading of analyze_center_impact.py has run
LoadRan == fScript = "analyze_center_impact" /\ fPc # "start"

\* C8: when the games file or the boxscores file is missing, the step that
\* needs it is skipped with a console message and raises nothing, writes no
\* output file, and the run goes on with the remaining steps.
C8_MissingInputSkipped ==
    /\ fErr = "none"
    /\ (GamesStepRan /\ ~fGames.exists) =>
            Printed("Skipping games (not found)") /\ Written("games") = {}
    /\ (BoxStepRan /\ ~fBox.exists) =>
            Printed("Skipping boxscores (not found)") /\ Written("boxscores") = {}
    /\ (BoxStepRan /\ fBox.exists) => Written("boxscores") # {}
    /\ (LoadRan /\ fGames.exists /\ fBox.exists) => fPc = "loaded"

\* C8 (amended): in clean_csvs.py a missing games or boxscores file makes
\* its step print a message, raise nothing and write no output file, and the
\* other step still runs; in analyze_center_impact.py a missing file raises
\* FileNotFoundError, which ends the script with nothing printed or written.
C8_CleanCsvsSkipsMissing ==
    /\ (fScript = "clean_csvs") => fErr = "none"
    /\ (GamesStepRan /\ ~fGames.exists) =>
            Printed("Skipping games (not found)") /\ Written("games") = {}
    /\ (BoxStepRan /\ ~fBox.exists) =>
            Printed("Skipping boxscores (not found)") /\ Written("boxscores") = {}
    /\ (BoxStepRan /\ fBox.exists) => Written("boxscores") # {}
    /\ (BoxStepRan /\ fGames.exists) => Written("games") # {}
    /\ BoxStepRan => console[Len(console)] = "Done."
    /\ LoadRan =>
            IF fGames.exists /\ fBox.exists
            THEN fPc = "loaded" /\ fErr = "none"
            ELSE fPc = "raised" /\ fErr = "FileNotFoundError"
                    /\ fOut = {} /\ console = <<>>

C8_Witness ==
    /\ BoxStepRan
    /\ ~fGames.exists
    /\ fBox.exists
    /\ Written("games") = {}
    /\ Cardinality(Written("boxscores")) = 3
    /\ console = <<"Skipping games (not found)", "Saved", "Saved", "Saved", "Done.">>

====
